---- MODULE Spec2Model ----
\* Severity labelling, first-mesh discovery, and the train / evaluate
\* orchestration of ml/train_severity_model.py and ml/evaluate_model.py.
EXTENDS FiniteSets, Integers, Sequences, TLC

\* ---------------------------------------------------------------------
\* Bounds
\* ---------------------------------------------------------------------
\* Largest number of files in a directory listing handed to discovery.
MaxFiles == 4
\* Largest number of elements in one mesh.
MaxElems == 2

\* ---------------------------------------------------------------------
\* File names.  A name is a sequence of tokens; no token is a prefix of
\* another, so comparing token sequences by TokenRank is the comparison
\* of the underlying character strings.
\* ---------------------------------------------------------------------
Digits == {"1", "2"}
\* Tokens that are one character long (what the regex '.' can match).
OneChar == {".", "1", "2", "x"}

TokenRank(t) ==
    CASE t = "."           -> 1
      [] t = "1"           -> 2
      [] t = "2"           -> 3
      [] t = "_ELEMENT"    -> 4
      [] t = "_NODE"       -> 5
      [] t = "csv"         -> 6
      [] t = "first_mesh_" -> 7
      [] t = "x"           -> 8

NodeName(idx) == <<"first_mesh_">> \o idx \o <<"_NODE", ".", "csv">>
ElemName(idx) == <<"first_mesh_">> \o idx \o <<"_ELEMENT", ".", "csv">>

\* first_mesh_xfirst_mesh_1_NODE.csv : a name that ends in first_mesh_1_NODE.csv
NestedNode == <<"first_mesh_", "x">> \o NodeName(<<"1">>)
\* first_mesh_1_NODExcsv_NODE.csv : the regex '.' matches the 'x'
DotNode == <<"first_mesh_", "1", "_NODE", "x", "csv", "_NODE", ".", "csv">>
\* first_mesh_x_NODE.csv : matches the glob, has no numeric index
AlphaNode == NodeName(<<"x">>)

NameUniverse ==
    { NodeName(<<"1">>), ElemName(<<"1">>),
      NodeName(<<"2">>), ElemName(<<"2">>),
      NodeName(<<"1", "2">>),
      NestedNode, DotNode, AlphaNode }

\* Path ordering (PurePath.__lt__): lexicographic on the name.
RECURSIVE NameLess(_, _)
NameLess(a, b) ==
    IF a = <<>> THEN b # <<>>
    ELSE IF b = <<>> THEN FALSE
    ELSE IF Head(a) = Head(b) THEN NameLess(Tail(a), Tail(b))
    ELSE TokenRank(Head(a)) < TokenRank(Head(b))

\* Tuple ordering of (node_csv, elem_csv).
PairLess(p, q) ==
    \/ NameLess(p[1], q[1])
    \/ p[1] = q[1] /\ NameLess(p[2], q[2])

\* vehicle_root.glob("first_mesh_*_NODE.csv")
GlobMatch(name) ==
    /\ Len(name) >= 4
    /\ name[1] = "first_mesh_"
    /\ name[Len(name) - 2] = "_NODE"
    /\ name[Len(name) - 1] = "."
    /\ name[Len(name)] = "csv"

\* One match of first_mesh_(\d+)_NODE.csv starting at token i, with the
\* digit run ending at token j.
MatchAt(name, i, j) ==
    /\ i >= 1 /\ j > i /\ j + 3 <= Len(name)
    /\ name[i] = "first_mesh_"
    /\ \A k \in (i + 1)..j : name[k] \in Digits
    /\ name[j + 1] = "_NODE"
    /\ name[j + 2] \in OneChar
    /\ name[j + 3] = "csv"

MatchStarts(name) ==
    { i \in 1..Len(name) : \E j \in 1..Len(name) : MatchAt(name, i, j) }

\* re.search(...): the leftmost match; NoMatch when there is none.
NoMatch == <<"NoMatch">>
ReSearchGroup(name) ==
    IF MatchStarts(name) = {} THEN NoMatch
    ELSE LET i == CHOOSE s \in MatchStarts(name) :
                      \A t \in MatchStarts(name) : s <= t
             j == CHOOSE e \in 1..Len(name) : MatchAt(name, i, e)
         IN  SubSeq(name, i + 1, j)

\* sorted(pairs): insertion of each pair in turn into an ordered list.
RECURSIVE Insert(_, _)
Insert(p, s) ==
    IF s = <<>> THEN <<p>>
    ELSE IF PairLess(p, Head(s)) THEN <<p>> \o s
    ELSE <<Head(s)>> \o Insert(p, Tail(s))

\* Variant: the pairs are returned in listing order.
SortedAsListed(s) == s

RECURSIVE Sorted(_)
Sorted(s) == IF s = <<>> THEN <<>> ELSE Insert(Head(s), Sorted(Tail(s)))

\* The loop of find_first_meshes over the listing, in listing order.
RECURSIVE CollectPairs(_, _)
CollectPairs(listing, present) ==
    IF listing = <<>> THEN <<>>
    ELSE LET node_csv == Head(listing)
             idx      == ReSearchGroup(node_csv)
             rest     == CollectPairs(Tail(listing), present)
         IN  IF idx = NoMatch THEN rest
             ELSE IF ElemName(idx) \in present
                  THEN <<<<node_csv, ElemName(idx)>>>> \o rest
                  ELSE rest

find_first_meshes(listing, present) == Sorted(CollectPairs(listing, present))

\* All orders in which a directory listing can enumerate a set of names.
Listings(S) ==
    { s \in [1..Cardinality(S) -> S] : \A i, j \in DOMAIN s : s[i] = s[j] => i = j }

Range(s) == { s[i] : i \in DOMAIN s }

\* ---------------------------------------------------------------------
\* Severity labelling
\* ---------------------------------------------------------------------
Tags == { "BAD_ASPECT_RATIO", "HIGH_SKEWNESS", "BAD_TRANSITION",
          "CAD_DEVIATION_HIGH", "OTHER_TAG" }

\* Outcome of a dictionary lookup that raises.
KeyError == "KeyError"

\* dict.get(key, default)
Get(m, key, default) == IF key \in DOMAIN m THEN m[key] ELSE default

\* Variant: the BAD_TRANSITION test comes first.
TrainLabelTransitionFirst(intrinsic_errors, cad_errors, eid) ==
    IF "BAD_TRANSITION" \in Get(intrinsic_errors, eid, {})
    THEN 1
    ELSE IF \/ "BAD_ASPECT_RATIO" \in Get(intrinsic_errors, eid, {})
            \/ "HIGH_SKEWNESS" \in Get(intrinsic_errors, eid, {})
            \/ "CAD_DEVIATION_HIGH" \in Get(cad_errors, eid, {})
         THEN 2
         ELSE 0

\* The rule of main(): if / elif / else appending 2, 1 or 0.
TrainLabel(intrinsic_errors, cad_errors, eid) ==
    IF \/ "BAD_ASPECT_RATIO" \in Get(intrinsic_errors, eid, {})
       \/ "HIGH_SKEWNESS" \in Get(intrinsic_errors, eid, {})
       \/ "CAD_DEVIATION_HIGH" \in Get(cad_errors, eid, {})
    THEN 2
    ELSE IF "BAD_TRANSITION" \in Get(intrinsic_errors, eid, {})
         THEN 1
         ELSE 0

\* Variant: every tag is looked for in both tag sets.
EvalLabelEitherSet(intrinsic_errors, cad_errors, eid) ==
    LET both == Get(intrinsic_errors, eid, {}) \cup Get(cad_errors, eid, {})
    IN  IF \/ "BAD_ASPECT_RATIO" \in both
           \/ "HIGH_SKEWNESS" \in both
           \/ "CAD_DEVIATION_HIGH" \in both
        THEN 2
        ELSE IF "BAD_TRANSITION" \in both THEN 1 ELSE 0

\* The rule of evaluate(): the same if / elif / else, written out again.
EvalLabel(intrinsic_errors, cad_errors, eid) ==
    IF \/ "BAD_ASPECT_RATIO" \in Get(intrinsic_errors, eid, {})
       \/ "HIGH_SKEWNESS" \in Get(intrinsic_errors, eid, {})
       \/ "CAD_DEVIATION_HIGH" \in Get(cad_errors, eid, {})
    THEN 2
    ELSE IF "BAD_TRANSITION" \in Get(intrinsic_errors, eid, {})
         THEN 1
         ELSE 0

\* Tag maps over a set of element ids: any subset of the ids as keys.
TagMaps(ids, values) == UNION { [K -> values] : K \in SUBSET ids }

VARIABLES
    \* discovery on its own
    d_files, d_pairs, d_pc,
    \* labelling on its own
    l_intrinsic, l_cad, l_y_all, l_y_true,
    \* the world a run starts in
    prog, mesh_idx, root_exists, files, model_file, model_before,
    \* a run of main() or evaluate()
    pc, error, cad_loads, mesh_pairs, pair_i, mesh, loaded,
    intrinsic_errors, cad_errors, elem_i, X_all, y_all, X, y_true,
    model, writes

discVars  == <<d_files, d_pairs, d_pc>>
labelVars == <<l_intrinsic, l_cad, l_y_all, l_y_true>>
worldVars == <<prog, mesh_idx, root_exists, files, model_before>>
runVars   == <<pc, error, cad_loads, mesh_pairs, pair_i, mesh, loaded,
               intrinsic_errors, cad_errors, elem_i, X_all, y_all, X, y_true,
               model, writes, model_file>>
vars == <<discVars, labelVars, worldVars, runVars>>

\* What can be stored at models/<vehicle_id>/severity_model.pkl, and what
\* the variable `model` can hold.
NoModel  == [kind |-> "none", X |-> <<>>, y |-> <<>>]
OldModel == [kind |-> "old", X |-> <<>>, y |-> <<>>]
Partial  == [kind |-> "partial", X |-> <<>>, y |-> <<>>]
NoError  == "none"
NoMesh   == [node |-> <<>>, elem |-> <<>>, elements |-> <<>>]

RunIdle ==
    /\ prog = "none" /\ mesh_idx = <<>> /\ root_exists = FALSE /\ files = {}
    /\ model_file = NoModel /\ model_before = NoModel
    /\ pc = "idle" /\ error = NoError /\ cad_loads = 0
    /\ mesh_pairs = <<>> /\ pair_i = 0 /\ mesh = NoMesh /\ loaded = <<>>
    /\ intrinsic_errors = <<>> /\ cad_errors = <<>> /\ elem_i = 0
    /\ X_all = <<>> /\ y_all = <<>> /\ X = <<>> /\ y_true = <<>>
    /\ model = NoModel /\ writes = 0

DiscIdle  == d_files = {} /\ d_pairs = <<>> /\ d_pc = "idle"
LabelIdle == l_intrinsic = <<>> /\ l_cad = <<>> /\ l_y_all = <<>> /\ l_y_true = <<>>

\* ---------------------------------------------------------------------
\* Discovery on every small directory.
\* ---------------------------------------------------------------------
InitDiscover ==
    /\ d_files \in { S \in SUBSET NameUniverse : Cardinality(S) <= MaxFiles }
    /\ d_pairs = <<>>
    /\ d_pc = "listed"
    /\ LabelIdle
    /\ RunIdle

FindFirstMeshes ==
    /\ d_pc = "listed"
    /\ \E listing \in Listings({ n \in d_files : GlobMatch(n) }) :
           d_pairs' = find_first_meshes(listing, d_files)
    /\ d_pc' = "found"
    /\ UNCHANGED <<d_files, labelVars, worldVars, runVars>>

NextDiscover == FindFirstMeshes
SpecDiscover == InitDiscover /\ [][NextDiscover]_vars

\* ---------------------------------------------------------------------
\* The labelling rule on every pair of tag entries of one element.
\* ---------------------------------------------------------------------
LabelIds == {1}

InitLabel ==
    /\ l_intrinsic \in TagMaps(LabelIds, SUBSET Tags)
    /\ l_cad \in TagMaps(LabelIds, SUBSET Tags)
    /\ l_y_all = <<>>
    /\ l_y_true = <<>>
    /\ DiscIdle
    /\ RunIdle

LabelInTraining ==
    /\ l_y_all = <<>>
    /\ \E eid \in LabelIds :
           l_y_all' = Append(l_y_all, TrainLabel(l_intrinsic, l_cad, eid))
    /\ UNCHANGED <<l_intrinsic, l_cad, l_y_true, discVars, worldVars, runVars>>

LabelInEvaluate ==
    /\ l_y_true = <<>>
    /\ \E eid \in LabelIds :
           l_y_true' = Append(l_y_true, EvalLabel(l_intrinsic, l_cad, eid))
    /\ UNCHANGED <<l_intrinsic, l_cad, l_y_all, discVars, worldVars, runVars>>

NextLabel == LabelInTraining \/ LabelInEvaluate
SpecLabel == InitLabel /\ [][NextLabel]_vars

\* ---------------------------------------------------------------------
\* Runs of main(vehicle_id) and evaluate(vehicle_id, mesh_idx)
\* ---------------------------------------------------------------------
\* mesh.elements: a mesh of n elements holds the ids 1..n, in any order.
ElementOrders ==
    UNION { { s \in [1..n -> 1..n] : \A i, j \in 1..n : s[i] = s[j] => i = j }
            : n \in 0..MaxElems }

\* Files a vehicle root may hold in a run, and the indices evaluate is given.
RunUniverse ==
    { NodeName(<<"1">>), ElemName(<<"1">>), NodeName(<<"2">>), ElemName(<<"2">>) }
EvalIndices == { <<"1">>, <<"2">> }

\* Tag values the rule detectors attach to an element in a run.
RunIntrinsicValues == { {"BAD_TRANSITION"} }
RunCadValues == { {"CAD_DEVIATION_HIGH"} }

\* build_feature_vector: a deterministic function of its inputs.
FeatureVector(eid, node) == [node |-> node, eid |-> eid]

\* RandomForestClassifier(...).fit(X, y) with a fixed seed: a function of (X, y).
Fitted(Xs, ys) == [kind |-> "fitted", X |-> Xs, y |-> ys]

\* load_mesh raises when a table file is absent; it may also raise on content.
CanLoad(node, elem, present) == node \in present /\ elem \in present

\* Variant: the existence test is dropped.
ModelMissingNever(stored) == FALSE

\* `if not model_path.exists()`
ModelMissing(stored) == stored = NoModel

\* Variant: the emptiness test is dropped.
NoPairsNever(pairs) == FALSE

\* `if not mesh_pairs`
NoPairs(pairs) == pairs = <<>>

\* Variant: a failing build_feature_vector is caught and the element
\* skipped.
TrainLoopBodySkipsFailure(Xs, ys, eid, node, intrinsic, cadtags, feat_ok) ==
    IF ~feat_ok
    THEN [X |-> Xs, y |-> ys, raised |-> NoError]
    ELSE [X |-> Append(Xs, FeatureVector(eid, node)),
          y |-> Append(ys, TrainLabel(intrinsic, cadtags, eid)),
          raised |-> NoError]

\* Variant: the tag maps are indexed, intrinsic_errors[eid], so a missing
\* key raises after the feature row was appended.
TrainLoopBodyStrictLookup(Xs, ys, eid, node, intrinsic, cadtags, feat_ok) ==
    IF ~feat_ok
    THEN [X |-> Xs, y |-> ys, raised |-> "build_feature_vector"]
    ELSE IF eid \notin DOMAIN intrinsic \/ eid \notin DOMAIN cadtags
    THEN [X |-> Append(Xs, FeatureVector(eid, node)), y |-> ys, raised |-> KeyError]
    ELSE [X |-> Append(Xs, FeatureVector(eid, node)),
          y |-> Append(ys, TrainLabel(intrinsic, cadtags, eid)),
          raised |-> NoError]

\* Variant: the final `else` is missing, so LOW appends no label.
TrainLoopBodyNoElse(Xs, ys, eid, node, intrinsic, cadtags, feat_ok) ==
    IF ~feat_ok
    THEN [X |-> Xs, y |-> ys, raised |-> "build_feature_vector"]
    ELSE [X |-> Append(Xs, FeatureVector(eid, node)),
          y |-> IF TrainLabel(intrinsic, cadtags, eid) = 0 THEN ys
                ELSE Append(ys, TrainLabel(intrinsic, cadtags, eid)),
          raised |-> NoError]

\* One pass of the body of `for eid in mesh.elements` in main().
TrainLoopBody(Xs, ys, eid, node, intrinsic, cadtags, feat_ok) ==
    IF ~feat_ok
    THEN [X |-> Xs, y |-> ys, raised |-> "build_feature_vector"]
    ELSE [X |-> Append(Xs, FeatureVector(eid, node)),
          y |-> Append(ys, TrainLabel(intrinsic, cadtags, eid)),
          raised |-> NoError]

\* Variant: evaluate() scores against a two-level teacher (HIGH folded
\* into MEDIUM).
EvalLoopBodyTwoLevel(Xs, ys, eid, node, intrinsic, cadtags, feat_ok) ==
    IF ~feat_ok
    THEN [X |-> Xs, y |-> ys, raised |-> "build_feature_vector"]
    ELSE [X |-> Append(Xs, FeatureVector(eid, node)),
          y |-> Append(ys, IF EvalLabel(intrinsic, cadtags, eid) = 0 THEN 0 ELSE 1),
          raised |-> NoError]

\* One pass of the body of `for eid in mesh.elements` in evaluate().
EvalLoopBody(Xs, ys, eid, node, intrinsic, cadtags, feat_ok) ==
    IF ~feat_ok
    THEN [X |-> Xs, y |-> ys, raised |-> "build_feature_vector"]
    ELSE [X |-> Append(Xs, FeatureVector(eid, node)),
          y |-> Append(ys, EvalLabel(intrinsic, cadtags, eid)),
          raised |-> NoError]

\* Where main() goes when the element loop of a mesh ends: the next pair
\* of `for node_csv, elem_csv in mesh_pairs`, or past the loop.
AfterMesh(i, pairs) == IF i < Len(pairs) THEN "t_load_mesh" ELSE "t_fit"

\* Where main() goes after one element, or after the rule detectors.
AfterElement(k, elements, i, pairs) ==
    IF k < Len(elements) THEN "t_element" ELSE AfterMesh(i, pairs)

InitRun ==
    /\ prog \in {"train", "evaluate"}
    /\ mesh_idx \in IF prog = "evaluate" THEN EvalIndices ELSE { <<>> }
    /\ root_exists \in BOOLEAN
    /\ files \in IF root_exists THEN SUBSET RunUniverse ELSE { {} }
    /\ model_file \in {NoModel, OldModel}
    /\ model_before = model_file
    /\ pc = IF prog = "train" THEN "t_root" ELSE "e_model_exists"
    /\ error = NoError /\ cad_loads = 0
    /\ mesh_pairs = <<>> /\ pair_i = 0 /\ mesh = NoMesh /\ loaded = <<>>
    /\ intrinsic_errors = <<>> /\ cad_errors = <<>> /\ elem_i = 0
    /\ X_all = <<>> /\ y_all = <<>> /\ X = <<>> /\ y_true = <<>>
    /\ model = NoModel /\ writes = 0
    /\ DiscIdle /\ LabelIdle

\* An unhandled exception ends the run.
Raise(e) == pc' = "failed" /\ error' = e

\* A collaborator call that returns nothing the run's data depends on.
Collaborator(from, to, name) ==
    /\ pc = from
    /\ \E ok \in BOOLEAN : IF ok THEN pc' = to /\ error' = error ELSE Raise(name)

idleVars == <<discVars, labelVars, worldVars>>

\* ---- main() ----
TrainCheckRoot ==
    /\ pc = "t_root"
    /\ IF ~root_exists THEN Raise("vehicle_not_found")
       ELSE pc' = "t_load_cad" /\ error' = error
    /\ UNCHANGED <<cad_loads, mesh_pairs, pair_i, mesh, loaded, intrinsic_errors,
                   cad_errors, elem_i, X_all, y_all, X, y_true, model, writes,
                   model_file, idleVars>>

TrainLoadCad ==
    /\ Collaborator("t_load_cad", "t_discover", "load_mesh(cad)")
    /\ cad_loads' = cad_loads + 1
    /\ UNCHANGED <<mesh_pairs, pair_i, mesh, loaded, intrinsic_errors,
                   cad_errors, elem_i, X_all, y_all, X, y_true, model, writes,
                   model_file, idleVars>>

TrainDiscover ==
    /\ pc = "t_discover"
    /\ \E listing \in Listings({ n \in files : GlobMatch(n) }) :
          LET found == find_first_meshes(listing, files) IN
          /\ mesh_pairs' = found
          /\ IF NoPairs(found) THEN Raise("no_first_meshes")
             ELSE pc' = AfterMesh(0, found) /\ error' = error
    /\ UNCHANGED <<cad_loads, pair_i, mesh, loaded, intrinsic_errors,
                   cad_errors, elem_i, X_all, y_all, X, y_true, model, writes,
                   model_file, idleVars>>

TrainLoadMesh ==
    /\ pc = "t_load_mesh"
    /\ pair_i' = pair_i + 1
    /\ LET node_csv == mesh_pairs[pair_i + 1][1]
           elem_csv == mesh_pairs[pair_i + 1][2]
       IN  \/ /\ CanLoad(node_csv, elem_csv, files)
              /\ \E els \in ElementOrders :
                    mesh' = [node |-> node_csv, elem |-> elem_csv, elements |-> els]
              /\ loaded' = Append(loaded, mesh')
              /\ elem_i' = 0
              /\ pc' = "t_neighbors" /\ error' = error
           \/ /\ Raise("load_mesh")
              /\ UNCHANGED <<mesh, loaded, elem_i>>
    /\ UNCHANGED <<cad_loads, mesh_pairs, intrinsic_errors,
                   cad_errors, X_all, y_all, X, y_true, model, writes,
                   model_file, idleVars>>

TrainBuildNeighbors ==
    /\ Collaborator("t_neighbors", "t_metrics", "build_element_neighbors")
    /\ UNCHANGED <<cad_loads, mesh_pairs, pair_i, mesh, loaded, intrinsic_errors,
                   cad_errors, elem_i, X_all, y_all, X, y_true, model, writes,
                   model_file, idleVars>>

TrainComputeMetrics ==
    /\ Collaborator("t_metrics", "t_intrinsic", "compute_intrinsic_metrics")
    /\ UNCHANGED <<cad_loads, mesh_pairs, pair_i, mesh, loaded, intrinsic_errors,
                   cad_errors, elem_i, X_all, y_all, X, y_true, model, writes,
                   model_file, idleVars>>

TrainDetectIntrinsic ==
    /\ pc = "t_intrinsic"
    /\ \/ /\ intrinsic_errors' \in TagMaps(Range(mesh.elements), RunIntrinsicValues)
          /\ pc' = "t_distances" /\ error' = error
       \/ /\ Raise("detect_intrinsic_errors")
          /\ UNCHANGED intrinsic_errors
    /\ UNCHANGED <<cad_loads, mesh_pairs, pair_i, mesh, loaded,
                   cad_errors, elem_i, X_all, y_all, X, y_true, model, writes,
                   model_file, idleVars>>

TrainComputeDistances ==
    /\ Collaborator("t_distances", "t_cad_rules", "compute_mesh_to_cad_distances")
    /\ UNCHANGED <<cad_loads, mesh_pairs, pair_i, mesh, loaded, intrinsic_errors,
                   cad_errors, elem_i, X_all, y_all, X, y_true, model, writes,
                   model_file, idleVars>>

TrainDetectCad ==
    /\ pc = "t_cad_rules"
    /\ \/ /\ cad_errors' \in TagMaps(Range(mesh.elements), RunCadValues)
          /\ pc' = AfterElement(0, mesh.elements, pair_i, mesh_pairs)
          /\ error' = error
       \/ /\ Raise("detect_cad_related_errors")
          /\ UNCHANGED cad_errors
    /\ UNCHANGED <<cad_loads, mesh_pairs, pair_i, mesh, loaded, intrinsic_errors,
                   elem_i, X_all, y_all, X, y_true, model, writes,
                   model_file, idleVars>>

TrainElement ==
    /\ pc = "t_element"
    /\ \E feat_ok \in BOOLEAN :
          LET eid == mesh.elements[elem_i + 1]
              r   == TrainLoopBody(X_all, y_all, eid, mesh.node,
                                   intrinsic_errors, cad_errors, feat_ok)
          IN  /\ X_all' = r.X
              /\ y_all' = r.y
              /\ IF r.raised # NoError
                 THEN Raise(r.raised) /\ UNCHANGED elem_i
                 ELSE /\ elem_i' = elem_i + 1
                      /\ pc' = AfterElement(elem_i + 1, mesh.elements, pair_i, mesh_pairs)
                      /\ error' = error
    /\ UNCHANGED <<cad_loads, mesh_pairs, pair_i, mesh, loaded, intrinsic_errors,
                   cad_errors, X, y_true, model, writes, model_file, idleVars>>

\* np.asarray(...) and model.fit(X, y); fit rejects an empty sample array.
TrainFit ==
    /\ pc = "t_fit"
    /\ \/ /\ X_all # <<>>
          /\ model' = Fitted(X_all, y_all)
          /\ pc' = "t_dump" /\ error' = error
       \/ /\ Raise("fit")
          /\ UNCHANGED model
    /\ UNCHANGED <<cad_loads, mesh_pairs, pair_i, mesh, loaded, intrinsic_errors,
                   cad_errors, elem_i, X_all, y_all, X, y_true, writes,
                   model_file, idleVars>>

\* out_dir.mkdir(...) and joblib.dump(model, model_path).  mkdir can raise
\* (a path component that is a regular file), and so can the open inside
\* joblib.dump: both leave the model path as it was.  A dump that raises
\* after the open has already truncated the file.
TrainDump ==
    /\ pc = "t_dump"
    /\ \/ /\ model_file' = model
          /\ writes' = writes + 1
          /\ pc' = "done" /\ error' = error
       \/ /\ \E e \in {"mkdir", "open"} : Raise(e)
          /\ UNCHANGED <<model_file, writes>>
       \/ /\ model_file' = Partial
          /\ writes' = writes + 1
          /\ Raise("dump")
    /\ UNCHANGED <<cad_loads, mesh_pairs, pair_i, mesh, loaded, intrinsic_errors,
                   cad_errors, elem_i, X_all, y_all, X, y_true, model, idleVars>>

NextTrain ==
    \/ TrainCheckRoot \/ TrainLoadCad \/ TrainDiscover \/ TrainLoadMesh
    \/ TrainBuildNeighbors \/ TrainComputeMetrics \/ TrainDetectIntrinsic
    \/ TrainComputeDistances \/ TrainDetectCad \/ TrainElement
    \/ TrainFit \/ TrainDump

\* ---- evaluate() ----
EvalCheckModel ==
    /\ pc = "e_model_exists"
    /\ IF ModelMissing(model_file) THEN Raise("model_not_found")
       ELSE pc' = "e_load_model" /\ error' = error
    /\ UNCHANGED <<cad_loads, mesh_pairs, pair_i, mesh, loaded,
                   intrinsic_errors, cad_errors, elem_i, X_all, y_all, X,
                   y_true, model, writes, model_file, idleVars>>

\* joblib.load(model_path); raises on a file it cannot unpickle.
EvalLoadModel ==
    /\ pc = "e_load_model"
    /\ \/ /\ model_file \notin {NoModel, Partial}
          /\ model' = model_file
          /\ pc' = "e_load_cad" /\ error' = error
       \/ /\ Raise("joblib.load")
          /\ UNCHANGED model
    /\ UNCHANGED <<cad_loads, mesh_pairs, pair_i, mesh, loaded,
                   intrinsic_errors, cad_errors, elem_i, X_all, y_all, X,
                   y_true, writes, model_file, idleVars>>

\* evaluate() does not test the vehicle root: without it the CAD load raises.
EvalLoadCad ==
    /\ pc = "e_load_cad"
    /\ \/ /\ root_exists
          /\ pc' = "e_load_mesh" /\ error' = error
       \/ Raise("load_mesh(cad)")
    /\ cad_loads' = cad_loads + 1
    /\ UNCHANGED <<mesh_pairs, pair_i, mesh, loaded, intrinsic_errors,
                   cad_errors, elem_i, X_all, y_all, X, y_true, model,
                   writes, model_file, idleVars>>

EvalLoadMesh ==
    /\ pc = "e_load_mesh"
    /\ LET node_csv == NodeName(mesh_idx)
           elem_csv == ElemName(mesh_idx)
       IN  \/ /\ CanLoad(node_csv, elem_csv, files)
              /\ \E els \in ElementOrders :
                    mesh' = [node |-> node_csv, elem |-> elem_csv, elements |-> els]
              /\ loaded' = Append(loaded, mesh')
              /\ pc' = "e_neighbors" /\ error' = error
           \/ /\ Raise("load_mesh")
              /\ UNCHANGED <<mesh, loaded>>
    /\ UNCHANGED <<cad_loads, mesh_pairs, pair_i, intrinsic_errors,
                   cad_errors, elem_i, X_all, y_all, X, y_true, model,
                   writes, model_file, idleVars>>

EvalBuildNeighbors ==
    /\ Collaborator("e_neighbors", "e_metrics", "build_element_neighbors")
    /\ UNCHANGED <<cad_loads, mesh_pairs, pair_i, mesh, loaded,
                   intrinsic_errors, cad_errors, elem_i, X_all, y_all, X,
                   y_true, model, writes, model_file, idleVars>>

EvalComputeMetrics ==
    /\ Collaborator("e_metrics", "e_intrinsic", "compute_intrinsic_metrics")
    /\ UNCHANGED <<cad_loads, mesh_pairs, pair_i, mesh, loaded,
                   intrinsic_errors, cad_errors, elem_i, X_all, y_all, X,
                   y_true, model, writes, model_file, idleVars>>

EvalDetectIntrinsic ==
    /\ pc = "e_intrinsic"
    /\ \/ /\ intrinsic_errors' \in TagMaps(Range(mesh.elements), RunIntrinsicValues)
          /\ pc' = "e_distances" /\ error' = error
       \/ /\ Raise("detect_intrinsic_errors")
          /\ UNCHANGED intrinsic_errors
    /\ UNCHANGED <<cad_loads, mesh_pairs, pair_i, mesh, loaded, cad_errors,
                   elem_i, X_all, y_all, X, y_true, model, writes,
                   model_file, idleVars>>

EvalComputeDistances ==
    /\ Collaborator("e_distances", "e_cad_rules", "compute_mesh_to_cad_distances")
    /\ UNCHANGED <<cad_loads, mesh_pairs, pair_i, mesh, loaded,
                   intrinsic_errors, cad_errors, elem_i, X_all, y_all, X,
                   y_true, model, writes, model_file, idleVars>>

\* Where evaluate() goes after one element, or after the rule detectors.
EvalAfterElement(k, elements) ==
    IF k < Len(elements) THEN "e_element" ELSE "e_predict"

EvalDetectCad ==
    /\ pc = "e_cad_rules"
    /\ \/ /\ cad_errors' \in TagMaps(Range(mesh.elements), RunCadValues)
          /\ pc' = EvalAfterElement(0, mesh.elements)
          /\ error' = error
       \/ /\ Raise("detect_cad_related_errors")
          /\ UNCHANGED cad_errors
    /\ UNCHANGED <<cad_loads, mesh_pairs, pair_i, mesh, loaded,
                   intrinsic_errors, elem_i, X_all, y_all, X, y_true, model,
                   writes, model_file, idleVars>>

EvalElement ==
    /\ pc = "e_element"
    /\ \E feat_ok \in BOOLEAN :
          LET eid == mesh.elements[elem_i + 1]
              r   == EvalLoopBody(X, y_true, eid, mesh.node,
                                  intrinsic_errors, cad_errors, feat_ok)
          IN  /\ X' = r.X
              /\ y_true' = r.y
              /\ IF r.raised # NoError
                 THEN Raise(r.raised) /\ UNCHANGED elem_i
                 ELSE /\ elem_i' = elem_i + 1
                      /\ pc' = EvalAfterElement(elem_i + 1, mesh.elements)
                      /\ error' = error
    /\ UNCHANGED <<cad_loads, mesh_pairs, pair_i, mesh, loaded,
                   intrinsic_errors, cad_errors, X_all, y_all, model, writes,
                   model_file, idleVars>>

\* np.asarray(...), model.predict(X) and the printed report; predict
\* rejects an empty sample array and may raise on any other.
EvalPredict ==
    /\ pc = "e_predict"
    /\ \/ /\ X # <<>>
          /\ pc' = "done" /\ error' = error
       \/ Raise("predict")
    /\ UNCHANGED <<cad_loads, mesh_pairs, pair_i, mesh, loaded,
                   intrinsic_errors, cad_errors, elem_i, X_all, y_all, X,
                   y_true, model, writes, model_file, idleVars>>

NextEval ==
    \/ EvalCheckModel \/ EvalLoadModel \/ EvalLoadCad \/ EvalLoadMesh
    \/ EvalBuildNeighbors \/ EvalComputeMetrics \/ EvalDetectIntrinsic
    \/ EvalComputeDistances \/ EvalDetectCad \/ EvalElement \/ EvalPredict

Next == NextTrain \/ NextEval
Spec == InitRun /\ [][Next]_vars

\* ---------------------------------------------------------------------
\* Properties
\* ---------------------------------------------------------------------
\* The labelling policy as stated: HIGH, else MEDIUM, else LOW.
SeverityPolicy(intrinsicTags, cadTags) ==
    IF \/ "BAD_ASPECT_RATIO" \in intrinsicTags
       \/ "HIGH_SKEWNESS" \in intrinsicTags
       \/ "CAD_DEVIATION_HIGH" \in cadTags
    THEN 2
    ELSE IF "BAD_TRANSITION" \in intrinsicTags THEN 1 ELSE 0

\* The tag set of an element, a missing key read as the empty set.
Entry(m, eid) == IF eid \in DOMAIN m THEN m[eid] ELSE {}

HighTriggered(it, ct) ==
    \/ "BAD_ASPECT_RATIO" \in it
    \/ "HIGH_SKEWNESS" \in it
    \/ "CAD_DEVIATION_HIGH" \in ct

\* Every label appended so far, by main() and by evaluate(), is v.
LabelsAre(v) ==
    /\ l_y_all \in { <<>>, <<v>> }
    /\ l_y_true \in { <<>>, <<v>> }

\* C1: whenever BAD_ASPECT_RATIO or HIGH_SKEWNESS is among the intrinsic
\* tags, or CAD_DEVIATION_HIGH among the CAD tags, the label appended by
\* main() and by evaluate() is HIGH = 2, whatever other tags are present.
C1_HighDominates ==
    \A eid \in LabelIds :
        HighTriggered(Entry(l_intrinsic, eid), Entry(l_cad, eid)) => LabelsAre(2)

\* C1 case: HIGH_SKEWNESS together with BAD_TRANSITION, labelled by both.
C1_Witness ==
    /\ l_y_all = <<2>> /\ l_y_true = <<2>>
    /\ \E eid \in LabelIds :
          /\ eid \in DOMAIN l_intrinsic
          /\ {"HIGH_SKEWNESS", "BAD_TRANSITION"} \subseteq l_intrinsic[eid]
          /\ "CAD_DEVIATION_HIGH" \notin Entry(l_cad, eid)

\* C2: without a HIGH-triggering tag the label is MEDIUM = 1 exactly when
\* BAD_TRANSITION is among the intrinsic tags and LOW = 0 otherwise; tags
\* in the wrong set and unknown tags change nothing; every input, two
\* empty sets included, gets exactly one label out of {0, 1, 2}.
C2_MediumElseLow ==
    /\ Len(l_y_all) <= 1 /\ Len(l_y_true) <= 1
    /\ Range(l_y_all) \cup Range(l_y_true) \subseteq {0, 1, 2}
    /\ \A eid \in LabelIds :
          LET it == Entry(l_intrinsic, eid)
              ct == Entry(l_cad, eid)
          IN  ~HighTriggered(it, ct) =>
                 IF "BAD_TRANSITION" \in it THEN LabelsAre(1) ELSE LabelsAre(0)

\* C2 case: BAD_TRANSITION only among the CAD tags, CAD_DEVIATION_HIGH only
\* among the intrinsic tags, an unknown tag present; both label it LOW.
C2_Witness ==
    /\ l_y_all = <<0>> /\ l_y_true = <<0>>
    /\ \E eid \in LabelIds :
          /\ eid \in DOMAIN l_intrinsic /\ eid \in DOMAIN l_cad
          /\ l_intrinsic[eid] = {"CAD_DEVIATION_HIGH", "OTHER_TAG"}
          /\ l_cad[eid] = {"BAD_TRANSITION", "BAD_ASPECT_RATIO", "HIGH_SKEWNESS"}

\* ---- discovery ----
Indices == { <<"1">>, <<"2">>, <<"1", "2">>, <<"2", "1">>, <<"1", "1">>, <<"2", "2">> }

\* C6: discovery returns exactly one pair per numeric index whose node and
\* element files both exist; every returned pair consists of existing
\* files named first_mesh_<idx>_NODE.csv and first_mesh_<idx>_ELEMENT.csv
\* for one idx; no element file is in two pairs.
C6_PairsValid ==
    d_pc = "found" =>
        /\ \A idx \in Indices :
              (NodeName(idx) \in d_files /\ ElemName(idx) \in d_files) =>
                 Cardinality({ i \in DOMAIN d_pairs :
                                 d_pairs[i] = <<NodeName(idx), ElemName(idx)>> }) = 1
        /\ \A i \in DOMAIN d_pairs :
              /\ d_pairs[i][1] \in d_files
              /\ d_pairs[i][2] \in d_files
              /\ \E idx \in Indices : d_pairs[i] = <<NodeName(idx), ElemName(idx)>>
        /\ \A i, j \in DOMAIN d_pairs : d_pairs[i][2] = d_pairs[j][2] => i = j

\* ---- runs ----
RECURSIVE SumElems(_)
SumElems(meshes) ==
    IF meshes = <<>> THEN 0
    ELSE Len(Head(meshes).elements) + SumElems(Tail(meshes))

RowsOf(m) == [ i \in 1..Len(m.elements) |-> [node |-> m.node, eid |-> m.elements[i]] ]

RECURSIVE Rows(_)
Rows(meshes) ==
    IF meshes = <<>> THEN <<>> ELSE RowsOf(Head(meshes)) \o Rows(Tail(meshes))

\* The meshes loaded before the current one.
Earlier == IF loaded = <<>> THEN <<>> ELSE SubSeq(loaded, 1, Len(loaded) - 1)
Base == SumElems(Earlier)

\* The feature and label sequences of the running program.
Feats == IF prog = "train" THEN X_all ELSE X
Labels == IF prog = "train" THEN y_all ELSE y_true

\* The element loop of the current mesh has run to its end.
LoopDone ==
    /\ loaded # <<>>
    /\ \/ pc \in {"t_fit", "t_dump", "e_predict", "done"}
       \/ pc = "t_load_mesh"

\* C3: an element missing from the intrinsic tag map, the CAD tag map or
\* both raises nothing in the loop and still gets one label, the label of
\* the policy with the empty set in place of the missing entry (LOW when
\* both are missing).
C3_MissingIsEmpty ==
    /\ error # KeyError
    /\ (loaded # <<>> /\ elem_i > 0) =>
          LET base == Base
              labels == Labels
          IN  \A i \in 1..elem_i :
                 LET eid == mesh.elements[i]
                     it  == IF eid \in DOMAIN intrinsic_errors
                            THEN intrinsic_errors[eid] ELSE {}
                     ct  == IF eid \in DOMAIN cad_errors THEN cad_errors[eid] ELSE {}
                 IN  (eid \notin DOMAIN intrinsic_errors \/ eid \notin DOMAIN cad_errors) =>
                        /\ Len(labels) = base + elem_i
                        /\ labels[base + i] = SeverityPolicy(it, ct)
                        /\ (it = {} /\ ct = {}) => labels[base + i] = 0

\* C3 case: one processed element missing from both maps and labelled
\* LOW, another missing from the CAD map only and labelled MEDIUM.
C3_Witness ==
    /\ prog = "train" /\ pc = "done" /\ elem_i = 2
    /\ \E i, j \in 1..elem_i :
          /\ mesh.elements[i] \notin DOMAIN intrinsic_errors
          /\ mesh.elements[i] \notin DOMAIN cad_errors
          /\ y_all[Base + i] = 0
          /\ mesh.elements[j] \in DOMAIN intrinsic_errors
          /\ mesh.elements[j] \notin DOMAIN cad_errors
          /\ y_all[Base + j] = 1

\* C4: the feature and label sequences always have equal length; row i
\* and label i of a mesh come from its i-th element id; once the loop of
\* a mesh is over, both hold exactly one entry per element of that mesh.
C4_RowsAligned ==
    LET base == Base
        feats == Feats
        labels == Labels
    IN  /\ Len(feats) = Len(labels)
        /\ loaded # <<>> =>
              /\ Len(feats) = base + elem_i
              /\ elem_i <= Len(mesh.elements)
              /\ \A i \in 1..elem_i :
                    LET eid == mesh.elements[i] IN
                    /\ feats[base + i] = [node |-> mesh.node, eid |-> eid]
                    /\ labels[base + i] =
                          SeverityPolicy(Entry(intrinsic_errors, eid),
                                         Entry(cad_errors, eid))
              /\ LoopDone => elem_i = Len(mesh.elements)

\* C4 case: evaluate() past the loop of a two-element mesh whose elements
\* are listed in descending id order and carry different labels.
C4_Witness ==
    /\ prog = "evaluate" /\ pc = "done"
    /\ mesh.elements = <<2, 1>>
    /\ y_true = <<2, 0>>
    /\ X = <<[node |-> mesh.node, eid |-> 2], [node |-> mesh.node, eid |-> 1]>>

\* The mesh variants of a vehicle root: one pair per index whose node
\* file and element file are both present.
ValidPairs(present) ==
    { <<NodeName(idx), ElemName(idx)>> :
        idx \in { x \in Indices : NodeName(x) \in present /\ ElemName(x) \in present } }

\* C5: the dataset passed to fit has as many rows as the discovered
\* meshes have elements; its rows are the meshes' rows, mesh after mesh in
\* ascending node-file path order, each mesh in its element order; the
\* order is a function of the set of files, not of the listing order.
C5_AggregateOrder ==
    (prog = "train" /\ model.kind = "fitted") =>
        /\ Range(mesh_pairs) = ValidPairs(files)
        /\ \A i, j \in DOMAIN mesh_pairs :
              i < j => NameLess(mesh_pairs[i][1], mesh_pairs[j][1])
        /\ Len(loaded) = Len(mesh_pairs)
        /\ \A i \in DOMAIN loaded : loaded[i].node = mesh_pairs[i][1]
        /\ Len(model.X) = SumElems(loaded)
        /\ model.X = Rows(loaded)
        /\ Len(model.y) = Len(model.X)

\* C5 case: a finished run over two meshes of two elements each.
C5_Witness ==
    /\ prog = "train" /\ pc = "done"
    /\ Len(mesh_pairs) = 2
    /\ \A i \in DOMAIN loaded : Len(loaded[i].elements) = 2
    /\ Len(model_file.X) = 4

\* Some index has both its node file and its element file.
HasPair(present) ==
    \E idx \in Indices : NodeName(idx) \in present /\ ElemName(idx) \in present

DiscoveryRan ==
    /\ pc \notin {"t_root", "t_load_cad", "t_discover"}
    /\ error \notin {"vehicle_not_found", "load_mesh(cad)"}

\* C7: when the root exists and holds no valid pair, main() ends with the
\* no-first-meshes error as soon as discovery has run: no mesh variant is
\* loaded, nothing is fitted, the model file is not touched.
C7_EmptyStops ==
    (prog = "train" /\ DiscoveryRan /\ ~HasPair(files)) =>
        /\ root_exists
        /\ pc = "failed" /\ error = "no_first_meshes"
        /\ mesh_pairs = <<>>
        /\ loaded = <<>>
        /\ model = NoModel
        /\ writes = 0 /\ model_file = model_before

\* C7 case: a node file whose element file is absent, next to an element
\* file of another index, over an existing model.
C7_Witness ==
    /\ prog = "train" /\ pc = "failed" /\ error = "no_first_meshes"
    /\ files = { NodeName(<<"1">>), ElemName(<<"2">>) }
    /\ cad_loads = 1
    /\ model_file = OldModel

\* C8: without a persisted model evaluate() ends with the model-not-found
\* error before the model, the CAD mesh or the mesh variant is loaded; no
\* run of evaluate() changes the persisted model.
C8_EvaluateReadOnly ==
    prog = "evaluate" =>
        /\ model_file = model_before /\ writes = 0
        /\ model_before = NoModel =>
              /\ pc \in {"e_model_exists", "failed"}
              /\ pc = "failed" => error = "model_not_found"
              /\ cad_loads = 0 /\ loaded = <<>> /\ model = NoModel

\* C8 case: no model, while the mesh variant asked for is on disk.
C8_Witness ==
    /\ prog = "evaluate" /\ model_before = NoModel
    /\ pc = "failed" /\ error = "model_not_found"
    /\ NodeName(mesh_idx) \in files /\ ElemName(mesh_idx) \in files

\* The labels main() appends for the first k elements of a mesh.
RECURSIVE TrainPass(_, _, _, _, _)
TrainPass(elements, k, node, intrinsic, cadtags) ==
    IF k = 0 THEN [X |-> <<>>, y |-> <<>>, raised |-> NoError]
    ELSE LET before == TrainPass(elements, k - 1, node, intrinsic, cadtags)
         IN  TrainLoopBody(before.X, before.y, elements[k], node,
                           intrinsic, cadtags, TRUE)

\* C9: the label sequence evaluate() builds for a mesh is, element by
\* element, the sequence main() appends for the same mesh and tag maps.
C9_SameLabels ==
    (prog = "evaluate" /\ loaded # <<>>) =>
        /\ y_true = TrainPass(mesh.elements, elem_i, mesh.node,
                              intrinsic_errors, cad_errors).y
        /\ pc \in {"e_predict", "done"} => elem_i = Len(mesh.elements)

\* C9 case: evaluate() finished on a mesh with an element carrying both
\* BAD_TRANSITION and CAD_DEVIATION_HIGH and an element missing from both
\* maps.
C9_Witness ==
    /\ prog = "evaluate" /\ pc = "done"
    /\ mesh.elements = <<2, 1>>
    /\ 2 \in DOMAIN intrinsic_errors /\ 2 \in DOMAIN cad_errors
    /\ 1 \notin DOMAIN intrinsic_errors /\ 1 \notin DOMAIN cad_errors
    /\ y_true = <<2, 0>>

\* C10: the model file is written at most once, and only after the root
\* was found, the CAD mesh loaded once, every discovered mesh loaded once
\* and processed for all of its elements, and the classifier fitted on
\* that dataset; a run that fails before the write leaves the model file
\* as it was.
C10_AllOrNothing ==
    prog = "train" =>
        /\ writes <= 1 /\ cad_loads <= 1
        /\ Len(loaded) <= Len(mesh_pairs)
        /\ \A i \in DOMAIN loaded : loaded[i].node = mesh_pairs[i][1]
        /\ writes = 0 => model_file = model_before
        /\ (pc = "failed" /\ error # "dump") => writes = 0
        /\ writes = 1 =>
              /\ root_exists /\ cad_loads = 1
              /\ mesh_pairs # <<>>
              /\ Len(loaded) = Len(mesh_pairs)
              /\ Len(X_all) = SumElems(loaded) /\ Len(y_all) = SumElems(loaded)
              /\ model.kind = "fitted" /\ model.X = X_all /\ model.y = y_all
              /\ pc = "done" => model_file = model

\* C10 case: feature assembly fails on the last element of the last of
\* two meshes, over an existing model, which is still in place.
C10_Witness ==
    /\ prog = "train" /\ pc = "failed" /\ error = "build_feature_vector"
    /\ Len(mesh_pairs) = 2 /\ Len(loaded) = 2
    /\ Len(mesh.elements) = 2 /\ elem_i = 1
    /\ model_before = OldModel /\ model_file = OldModel

====
